---- MODULE Spec2Model ----
(***************************************************************************)
(* Model of the medical-microscopy frontend: the App component's search    *)
(* lifecycle (App.jsx), the DropZone validation, the FilterBar, the        *)
(* ResultsGrid vote ledger and the transport client's request building.    *)
(*                                                                         *)
(* React state is modelled as variables.  An event handler runs to         *)
(* completion as one action (its state updates are batched); the part of   *)
(* an async handler after its await is a separate action that fires when   *)
(* the network call resolves or rejects.  Handlers read the state of the   *)
(* render they were created in, which for a handler invoked from another   *)
(* handler of the same event is the state before that event.               *)
(***************************************************************************)
EXTENDS Integers, Sequences, FiniteSets, TLC

\* ---------------------------------------------------------------- bounds
MaxQueries == 2     \* search network calls issued in one behaviour
MaxFeedback == 2    \* feedback network calls issued in one behaviour
MaxResetQueries == 3  \* search network calls where two requests outlive a reset

\* ---------------------------------------------------------------- values
Null == "null"          \* JS null, for a value that is otherwise a string
Undef == "undefined"    \* JS undefined / absent object key

ACCEPTED_TYPES == {"image/jpeg", "image/png", "image/tiff"}

\* Files the user can drop or pick, by name, and the MIME type of each.
Files == {"a.jpg", "b.tif", "c.pdf"}

FileType ==
  [f \in Files |->
     CASE f = "a.jpg" -> "image/jpeg"
       [] f = "b.tif" -> "image/tiff"
       [] f = "c.pdf" -> "application/pdf"]

\* Contents the user can give the text box, as sequences of characters:
\* empty, blank, a word, and a word with blanks around it.
Texts == {<< >>, <<" ">>, <<"a">>, <<" ", "a", " ">>}

\* String.prototype.trim: drop leading and trailing white space.
RECURSIVE TrimLeft(_)
TrimLeft(s) ==
  IF s # << >> /\ Head(s) = " " THEN TrimLeft(Tail(s)) ELSE s

RECURSIVE TrimRight(_)
TrimRight(s) ==
  IF s # << >> /\ s[Len(s)] = " " THEN TrimRight(SubSeq(s, 1, Len(s) - 1)) ELSE s

Trim(s) == TrimRight(TrimLeft(s))

\* Filter dimensions of the FilterBar and the vocabulary the backend returns.
Dims == {"diagnosis", "tissue_type", "benign_malignant"}

FilterOptions ==
  [diagnosis |-> {"melanoma"}, tissue_type |-> {"skin"}, benign_malignant |-> {"benign"}]

NoFilters == [d \in Dims |-> Undef]   \* useState({})

\* A filter test that lets the empty string through.
TruthyLoose(v) == v # Undef

\* JS truthiness of a filter value: undefined and "" are falsy.
Truthy(v) == v # Undef /\ v # ""

\* The filter parameters a request carries: URLSearchParams of searchSimilar
\* and the body fields of searchByText keep only the truthy dimensions.
RequestFilters(f) == [d \in {e \in Dims : Truthy(f[e])} |-> f[d]]

\* searchSimilar(file, filters) up to its fetch: the request it sends.
SimilarRequest(id, file, f) ==
  [id |-> id, kind |-> "image", file |-> file, text |-> << >>,
   filters |-> RequestFilters(f)]

\* searchByText(query, filters) up to its fetch: the request it sends.
TextRequest(id, query, f) ==
  [id |-> id, kind |-> "text", file |-> Null, text |-> query,
   filters |-> RequestFilters(f)]

\* Result items are identified by their image id.
Items == {1, 2}
ResultLists == {<< >>, <<1, 2>>, <<2, 1>>}

Range(s) == {s[i] : i \in 1..Len(s)}

\* A search response: the id of the call it answers and its ranked items.
\* NullResults stands for results === null (calls are numbered from 1).
NullResults == [of |-> 0, results |-> << >>]

NoItem == 0                      \* selectedResult === null
NullOptions == [d \in Dims |-> {}]   \* filterOptions === null

NoVotes == [i \in Items |-> 0]   \* useState({}): 0 stands for "no entry"

SearchError == [image |-> "Search failed: 500", text |-> "Text search failed: 500"]

\* ---------------------------------------------------------------- state
VARIABLES
  state,            \* App: "idle" | "searching" | "results" | "detail"
  results,          \* App: NullResults or the response data of a search
  selectedResult,   \* App: NoItem or a result item
  filters,          \* App: the active filter set
  filterOptions,    \* App: NullOptions or the fetched vocabulary
  health,           \* App: Null or the status of the health response
  error,            \* App: Null or an error message
  queryFile,        \* App: Null or the file of the image query
  textQuery,        \* App: content of the text box
  votes,            \* ResultsGrid: the vote ledger of the mounted grid
  pendingSearch,    \* search calls in flight
  pendingFeedback,  \* feedback calls in flight
  pendingMount,     \* mount-time fetches in flight: subset of {"health","filters"}
  searchCalls,      \* number of search network calls issued so far
  feedbackCalls,    \* number of feedback network calls issued so far
  current,          \* history: id of the query submitted last, 0 after newSearch
  lastKind,         \* history: modality of the query submitted last
  lastEvent,        \* history: the event handled by the last step
  resetFilters,     \* history: the filter set at the last newSearch
  budget            \* search network calls explored in this behaviour

appVars == <<state, results, selectedResult, filters, filterOptions, health,
             error, queryFile, textQuery>>
vars == <<state, results, selectedResult, filters, filterOptions, health,
          error, queryFile, textQuery, votes, pendingSearch, pendingFeedback,
          pendingMount, searchCalls, feedbackCalls, current, lastKind, lastEvent,
          resetFilters, budget>>

Event(op, arg) == [op |-> op, arg |-> arg]

\* The history of a step: the event it handles and, for newSearch, the
\* filter set it finds.
Log(op, arg) ==
  /\ lastEvent' = Event(op, arg)
  /\ resetFilters' = IF op = "newSearch" THEN filters ELSE resetFilters
  /\ UNCHANGED budget

InitState ==
  /\ state = "idle"
  /\ results = NullResults
  /\ selectedResult = NoItem
  /\ filters = NoFilters
  /\ filterOptions = NullOptions
  /\ health = Null
  /\ error = Null
  /\ queryFile = Null
  /\ textQuery = << >>
  /\ votes = NoVotes
  /\ pendingSearch = {}
  /\ pendingFeedback = {}
  /\ pendingMount = {"health", "filters"}
  /\ searchCalls = 0
  /\ feedbackCalls = 0
  /\ current = 0
  /\ lastKind = "none"
  /\ lastEvent = Event("mount", Null)
  /\ resetFilters = NoFilters

Init == InitState /\ budget = MaxQueries

\* ------------------------------------------------------- ResultsGrid mount
\* The grid is rendered (and keeps its local state) only in these App states.
GridMounted(st, res) == st = "results" /\ res # NullResults

\* Effect of a re-render of App on the grid: while it stays rendered its
\* ledger is kept; once it is not rendered the instance is gone, its state
\* is lost and the updates of its pending handlers go nowhere.
GridAfter(st, res) ==
  IF GridMounted(st, res)
  THEN UNCHANGED <<votes, pendingFeedback>>
  ELSE /\ votes' = NoVotes
       /\ pendingFeedback' = {[r EXCEPT !.live = FALSE] : r \in pendingFeedback}


\* ------------------------------------------------------------ DropZone/App
\* A validation that also lets documents through.
AcceptedLoose(file) == FileType[file] \in ACCEPTED_TYPES \cup {"application/pdf"}

\* ACCEPTED_TYPES.includes(file.type)
Accepted(file) == FileType[file] \in ACCEPTED_TYPES

\* handleSearch(file) up to its await.  closureFilters is the value of
\* `filters` in the render that created this handleSearch.
HandleSearch(file, closureFilters) ==
  /\ searchCalls < budget
  /\ queryFile' = file
  /\ state' = "searching"
  /\ error' = Null
  /\ results' = NullResults
  /\ searchCalls' = searchCalls + 1
  /\ pendingSearch' = pendingSearch \cup
       {SimilarRequest(searchCalls + 1, file, closureFilters)}
  /\ current' = searchCalls + 1
  /\ lastKind' = "image"
  /\ GridAfter("searching", NullResults)

\* DropZone.handleFile(file): rendered only while App is idle.
HandleFile(file) ==
  /\ state = "idle"
  /\ Log("dropFile", file)
  /\ IF file = Null \/ ~Accepted(file)
     THEN UNCHANGED <<appVars, votes, pendingSearch, pendingFeedback,
                      searchCalls, current, lastKind>>
     ELSE /\ HandleSearch(file, filters)
          /\ UNCHANGED <<selectedResult, filters, filterOptions, health, textQuery>>
  /\ UNCHANGED <<pendingMount, feedbackCalls>>

\* onChange of the text box (rendered only while App is idle).
SetTextQuery(t) ==
  /\ state = "idle"
  /\ t # textQuery
  /\ textQuery' = t
  /\ Log("typeText", t)
  /\ UNCHANGED <<state, results, selectedResult, filters, filterOptions, health,
                 error, queryFile, votes, pendingSearch, pendingFeedback,
                 pendingMount, searchCalls, feedbackCalls, current, lastKind>>

\* handleTextSearch(e) up to its await: submit of the text form.
HandleTextSearch ==
  /\ state = "idle"
  /\ Log("textSubmit", textQuery)
  /\ IF Trim(textQuery) = << >>
     THEN UNCHANGED <<appVars, votes, pendingSearch, pendingFeedback,
                      searchCalls, current, lastKind>>
     ELSE /\ searchCalls < budget
          /\ state' = "searching"
          /\ error' = Null
          /\ results' = NullResults
          /\ queryFile' = Null
          /\ searchCalls' = searchCalls + 1
          /\ pendingSearch' = pendingSearch \cup
               {TextRequest(searchCalls + 1, Trim(textQuery), filters)}
          /\ current' = searchCalls + 1
          /\ lastKind' = "text"
          /\ GridAfter("searching", NullResults)
          /\ UNCHANGED <<selectedResult, filters, filterOptions, health, textQuery>>
  /\ UNCHANGED <<pendingMount, feedbackCalls>>

\* A store that turns the response's items around.
ResponseDataReversed(r, items) ==
  [of |-> r.id, results |-> [i \in 1..Len(items) |-> items[Len(items) + 1 - i]]]

\* setResults(data): the response of request r is stored as it came.
ResponseData(r, items) == [of |-> r.id, results |-> items]

\* A response handler that returns to the detail view of a kept selection.
SearchResolvesKeepDetail(r, items) ==
  /\ r \in pendingSearch
  /\ pendingSearch' = pendingSearch \ {r}
  /\ results' = ResponseData(r, items)
  /\ state' = IF selectedResult # NoItem THEN "detail" ELSE "results"
  /\ GridAfter(IF selectedResult # NoItem THEN "detail" ELSE "results",
               ResponseData(r, items))
  /\ Log("searchOk", [id |-> r.id, items |-> items])
  /\ UNCHANGED <<selectedResult, filters, filterOptions, health, error, queryFile,
                 textQuery, pendingMount, searchCalls, feedbackCalls, current, lastKind>>

\* The search call of request r resolves with a response: the rest of the
\* try block of handleSearch / handleTextSearch.
SearchResolves(r, items) ==
  /\ r \in pendingSearch
  /\ pendingSearch' = pendingSearch \ {r}
  /\ results' = ResponseData(r, items)
  /\ state' = "results"
  /\ GridAfter("results", ResponseData(r, items))
  /\ Log("searchOk", [id |-> r.id, items |-> items])
  /\ UNCHANGED <<selectedResult, filters, filterOptions, health, error, queryFile,
                 textQuery, pendingMount, searchCalls, feedbackCalls, current, lastKind>>

\* A catch block that sends the failed request again by itself.
SearchFailsRetry(r) ==
  /\ r \in pendingSearch
  /\ searchCalls < budget
  /\ searchCalls' = searchCalls + 1
  /\ pendingSearch' = (pendingSearch \ {r}) \cup {[r EXCEPT !.id = searchCalls + 1]}
  /\ current' = IF current = r.id THEN searchCalls + 1 ELSE current
  /\ GridAfter(state, results)
  /\ Log("searchFail", r.id)
  /\ UNCHANGED <<appVars, pendingMount, feedbackCalls, lastKind>>

\* A catch block that sets the notice and forgets setState("idle").
SearchFailsStaySearching(r) ==
  /\ r \in pendingSearch
  /\ pendingSearch' = pendingSearch \ {r}
  /\ error' = SearchError[r.kind]
  /\ GridAfter(state, results)
  /\ Log("searchFail", r.id)
  /\ UNCHANGED <<state, results, selectedResult, filters, filterOptions, health,
                 queryFile, textQuery, pendingMount, searchCalls, feedbackCalls,
                 current, lastKind>>

\* The search call of request r rejects: the catch block.
SearchFails(r) ==
  /\ r \in pendingSearch
  /\ pendingSearch' = pendingSearch \ {r}
  /\ error' = SearchError[r.kind]
  /\ state' = "idle"
  /\ GridAfter("idle", results)
  /\ Log("searchFail", r.id)
  /\ UNCHANGED <<results, selectedResult, filters, filterOptions, health, queryFile,
                 textQuery, pendingMount, searchCalls, feedbackCalls, current, lastKind>>

\* A click handler that opens the detail view without storing the item.
HandleResultClickNoStore(item) ==
  /\ GridMounted(state, results)
  /\ item \in Range(results.results)
  /\ state' = "detail"
  /\ GridAfter("detail", results)
  /\ Log("select", item)
  /\ UNCHANGED <<results, selectedResult, filters, filterOptions, health, error,
                 queryFile, textQuery, pendingSearch, pendingMount, searchCalls,
                 feedbackCalls, current, lastKind>>

\* handleResultClick(result): click on a card of the rendered grid.
HandleResultClick(item) ==
  /\ GridMounted(state, results)
  /\ item \in Range(results.results)
  /\ selectedResult' = item
  /\ state' = "detail"
  /\ GridAfter("detail", results)
  /\ Log("select", item)
  /\ UNCHANGED <<results, filters, filterOptions, health, error, queryFile,
                 textQuery, pendingSearch, pendingMount, searchCalls, feedbackCalls,
                 current, lastKind>>

\* A back step that leaves the selection stored.
HandleBackKeepSelection ==
  /\ state = "detail" /\ results # NullResults /\ selectedResult # NoItem
  /\ state' = "results"
  /\ GridAfter("results", results)
  /\ Log("back", Null)
  /\ UNCHANGED <<results, selectedResult, filters, filterOptions, health, error,
                 queryFile, textQuery, pendingSearch, pendingMount, searchCalls,
                 feedbackCalls, current, lastKind>>

\* handleBack(): the button of the rendered ImageDetail.
HandleBack ==
  /\ state = "detail" /\ results # NullResults /\ selectedResult # NoItem
  /\ selectedResult' = NoItem
  /\ state' = "results"
  /\ GridAfter("results", results)
  /\ Log("back", Null)
  /\ UNCHANGED <<results, filters, filterOptions, health, error, queryFile,
                 textQuery, pendingSearch, pendingMount, searchCalls, feedbackCalls,
                 current, lastKind>>

\* A reset that forgets to drop the image payload and the selection.
HandleNewSearchKeepQuery ==
  /\ state # "idle"
  /\ state' = "idle"
  /\ results' = NullResults
  /\ textQuery' = << >>
  /\ current' = 0
  /\ GridAfter("idle", NullResults)
  /\ Log("newSearch", Null)
  /\ UNCHANGED <<selectedResult, queryFile, filters, filterOptions, health, error,
                 pendingSearch, pendingMount, searchCalls, feedbackCalls, lastKind>>

\* handleNewSearch(): the header button, rendered unless App is idle.
HandleNewSearch ==
  /\ state # "idle"
  /\ state' = "idle"
  /\ results' = NullResults
  /\ selectedResult' = NoItem
  /\ queryFile' = Null
  /\ textQuery' = << >>
  /\ current' = 0
  /\ GridAfter("idle", NullResults)
  /\ Log("newSearch", Null)
  /\ UNCHANGED <<filters, filterOptions, health, error, pendingSearch, pendingMount,
                 searchCalls, feedbackCalls, lastKind>>

\* Dismiss button of the error banner.
DismissError ==
  /\ error # Null
  /\ error' = Null
  /\ Log("dismiss", Null)
  /\ UNCHANGED <<state, results, selectedResult, filters, filterOptions, health,
                 queryFile, textQuery, votes, pendingSearch, pendingFeedback,
                 pendingMount, searchCalls, feedbackCalls, current, lastKind>>

\* ---------------------------------------------------------------- FilterBar
\* The value a <select> of the FilterBar shows: filters[field] || "".
Shown(f, field) == IF Truthy(f[field]) THEN f[field] ELSE ""

\* FilterBar.handleChange(field, value): { ...filters, [field]: value || undefined }
FilterBarChange(f, field, value) ==
  [f EXCEPT ![field] = IF value = "" THEN Undef ELSE value]

\* handleFilterChange(newFilters).  The handleSearch it calls is the one of
\* the current render, whose `filters` is the state before this event.
HandleFilterChange(newFilters) ==
  /\ filters' = newFilters
  /\ Log("filterChange", newFilters)
  /\ IF queryFile # Null
     THEN /\ HandleSearch(queryFile, filters)
          /\ UNCHANGED <<selectedResult, filterOptions, health, textQuery>>
     ELSE UNCHANGED <<state, results, selectedResult, filterOptions, health, error,
                      queryFile, textQuery, votes, pendingSearch, pendingFeedback,
                      searchCalls, current, lastKind>>
  /\ UNCHANGED <<pendingMount, feedbackCalls>>

\* The user picks another option in a <select> of the rendered FilterBar.
SelectFilter(field, value) ==
  /\ state \in {"results", "detail"} /\ results # NullResults
  /\ filterOptions # NullOptions
  /\ value \in filterOptions[field] \cup {""}
  /\ value # Shown(filters, field)
  /\ HandleFilterChange(FilterBarChange(filters, field, value))

\* -------------------------------------------------------------- ResultsGrid
\* votes[resultImageId] === vote
AlreadyVoted(ledger, item, vote) == ledger[item] = vote

\* A ledger update that keeps an entry once it is there.
StoreVoteKeepFirst(prev, item, vote) ==
  IF prev[item] = 0 THEN [prev EXCEPT ![item] = vote] ELSE prev

\* setVotes((prev) => ({ ...prev, [resultImageId]: vote }))
StoreVote(prev, item, vote) == [prev EXCEPT ![item] = vote]

\* handleVote(e, resultImageId, vote) up to its await: a feedback button of a
\* card of the rendered grid.  App passes no queryImageId to the grid.
HandleVote(item, vote) ==
  /\ GridMounted(state, results)
  /\ item \in Range(results.results)
  /\ Log("vote", [item |-> item, vote |-> vote])
  /\ IF AlreadyVoted(votes, item, vote)
     THEN UNCHANGED <<pendingFeedback, feedbackCalls>>
     ELSE /\ feedbackCalls < MaxFeedback
          /\ feedbackCalls' = feedbackCalls + 1
          /\ pendingFeedback' = pendingFeedback \cup
               {[id |-> feedbackCalls + 1, query |-> Null, item |-> item,
                 vote |-> vote, live |-> TRUE, pre |-> votes[item]]}
  /\ UNCHANGED <<appVars, votes, pendingSearch, pendingMount, searchCalls,
                 current, lastKind>>

\* submitFeedback resolves: the setVotes of the try block, which reaches the
\* grid only if the instance that cast the vote is still rendered.
FeedbackResolves(r) ==
  /\ r \in pendingFeedback
  /\ pendingFeedback' = pendingFeedback \ {r}
  /\ votes' = IF r.live THEN StoreVote(votes, r.item, r.vote) ELSE votes
  /\ Log("feedbackOk", r)
  /\ UNCHANGED <<appVars, pendingSearch, pendingMount, searchCalls, feedbackCalls,
                 current, lastKind>>

\* submitFeedback rejects: the catch block logs and leaves the ledger alone.
FeedbackFails(r) ==
  /\ r \in pendingFeedback
  /\ pendingFeedback' = pendingFeedback \ {r}
  /\ Log("feedbackFail", r)
  /\ UNCHANGED <<appVars, votes, pendingSearch, pendingMount, searchCalls,
                 feedbackCalls, current, lastKind>>

\* ------------------------------------------------------------ mount effects
\* checkHealth().then(setHealth)
HealthResolves(status) ==
  /\ "health" \in pendingMount
  /\ pendingMount' = pendingMount \ {"health"}
  /\ health' = status
  /\ Log("healthOk", status)
  /\ UNCHANGED <<state, results, selectedResult, filters, filterOptions, error,
                 queryFile, textQuery, votes, pendingSearch, pendingFeedback,
                 searchCalls, feedbackCalls, current, lastKind>>

\* A health failure that is also raised as an error notice.
HealthFailsWithError ==
  /\ "health" \in pendingMount
  /\ pendingMount' = pendingMount \ {"health"}
  /\ health' = "unreachable"
  /\ error' = "Health check failed"
  /\ Log("healthFail", Null)
  /\ UNCHANGED <<state, results, selectedResult, filters, filterOptions,
                 queryFile, textQuery, votes, pendingSearch, pendingFeedback,
                 searchCalls, feedbackCalls, current, lastKind>>

\* checkHealth() rejects: .catch(() => setHealth({ status: "unreachable" }))
HealthFails ==
  /\ "health" \in pendingMount
  /\ pendingMount' = pendingMount \ {"health"}
  /\ health' = "unreachable"
  /\ Log("healthFail", Null)
  /\ UNCHANGED <<state, results, selectedResult, filters, filterOptions, error,
                 queryFile, textQuery, votes, pendingSearch, pendingFeedback,
                 searchCalls, feedbackCalls, current, lastKind>>

\* getFilters().then(setFilterOptions)
FiltersResolve ==
  /\ "filters" \in pendingMount
  /\ pendingMount' = pendingMount \ {"filters"}
  /\ filterOptions' = FilterOptions
  /\ Log("filtersOk", Null)
  /\ UNCHANGED <<state, results, selectedResult, filters, health, error,
                 queryFile, textQuery, votes, pendingSearch, pendingFeedback,
                 searchCalls, feedbackCalls, current, lastKind>>

\* getFilters() rejects: .catch(() => {})
FiltersFail ==
  /\ "filters" \in pendingMount
  /\ pendingMount' = pendingMount \ {"filters"}
  /\ Log("filtersFail", Null)
  /\ UNCHANGED <<appVars, votes, pendingSearch, pendingFeedback,
                 searchCalls, feedbackCalls, current, lastKind>>

\* ------------------------------------------------------------ specification
\* The search lifecycle: every App event, with the filter vocabulary fetch.
\* The grid's votes and the health fetch, which no App handler reads, are
\* composed with the lifecycle in SpecVote and SpecHealth.
Next ==
  \/ \E file \in Files \cup {Null} : HandleFile(file)
  \/ \E t \in Texts : SetTextQuery(t)
  \/ HandleTextSearch
  \/ \E r \in pendingSearch, items \in ResultLists : SearchResolves(r, items)
  \/ \E r \in pendingSearch : SearchFails(r)
  \/ \E item \in Items : HandleResultClick(item)
  \/ HandleBack
  \/ HandleNewSearch
  \/ DismissError
  \/ \E field \in Dims, value \in {"", "melanoma", "skin", "benign"} : SelectFilter(field, value)
  \/ FiltersResolve
  \/ FiltersFail

Spec == Init /\ [][Next]_vars

\* The vote ledger: the grid's events and the App events that render or
\* remove the grid, for image queries.
NextVote ==
  \/ HandleFile("a.jpg")
  \/ \E r \in pendingSearch : SearchResolves(r, <<1, 2>>)
  \/ \E r \in pendingSearch : SearchFails(r)
  \/ \E item \in Items : HandleResultClick(item)
  \/ HandleBack
  \/ HandleNewSearch
  \/ \E item \in Items, vote \in {1, -1} : HandleVote(item, vote)
  \/ \E r \in pendingFeedback : FeedbackResolves(r)
  \/ \E r \in pendingFeedback : FeedbackFails(r)

SpecVote == Init /\ [][NextVote]_vars

\* The health indicator: the mount-time health fetch beside image queries.
NextHealth ==
  \/ \E status \in {"healthy", "degraded"} : HealthResolves(status)
  \/ HealthFails
  \/ \E file \in Files \cup {Null} : HandleFile(file)
  \/ \E r \in pendingSearch, items \in ResultLists : SearchResolves(r, items)
  \/ \E r \in pendingSearch : SearchFails(r)
  \/ HandleNewSearch
  \/ DismissError

SpecHealth == Init /\ [][NextHealth]_vars

\* The search lifecycle with a transport that answers: every awaited search
\* call settles, as a response or as a rejection, so the continuation of some
\* pending request runs whenever one is pending.
Respond ==
  \E r \in pendingSearch : SearchResolves(r, <<1, 2>>) \/ SearchFails(r)

NextLive ==
  \/ HandleFile("a.jpg")
  \/ SetTextQuery(<<"a">>)
  \/ HandleTextSearch
  \/ Respond
  \/ \E item \in Items : HandleResultClick(item)
  \/ HandleBack
  \/ HandleNewSearch
  \/ \E value \in {"", "melanoma"} : SelectFilter("diagnosis", value)
  \/ FiltersResolve

SpecLive == Init /\ [][NextLive]_vars /\ WF_vars(Respond)

\* Resets between image queries whose requests are still in flight: the
\* events around newSearch(), with room for two requests that outlive a reset
\* and the query submitted after it.
InitReset == InitState /\ budget = MaxResetQueries

NextReset ==
  \/ HandleFile("a.jpg")
  \/ \E r \in pendingSearch : SearchResolves(r, <<1, 2>>)
  \/ \E r \in pendingSearch : SearchFails(r)
  \/ HandleNewSearch
  \/ \E value \in {"", "melanoma"} : SelectFilter("diagnosis", value)
  \/ FiltersResolve

SpecReset == InitReset /\ [][NextReset]_vars

\* The transport client by itself: searchSimilar and searchByText called with
\* any filter object, whose keys may be absent, empty or unrecognized.
FilterKeys == Dims \cup {"age"}
FilterSets == [FilterKeys -> {Undef, "", "melanoma"}]

InitStrip ==
  /\ state = "idle"
  /\ results = NullResults
  /\ selectedResult = NoItem
  /\ filters \in FilterSets
  /\ filterOptions = NullOptions
  /\ health = Null
  /\ error = Null
  /\ queryFile = Null
  /\ textQuery = << >>
  /\ votes = NoVotes
  /\ pendingSearch = {}
  /\ pendingFeedback = {}
  /\ pendingMount = {"health", "filters"}
  /\ searchCalls = 0
  /\ feedbackCalls = 0
  /\ current = 0
  /\ lastKind = "none"
  /\ lastEvent = Event("mount", Null)
  /\ resetFilters = NoFilters
  /\ budget = MaxQueries

\* searchSimilar(file, filters): the request goes out.
CallSearchSimilar(file) ==
  /\ searchCalls < budget
  /\ searchCalls' = searchCalls + 1
  /\ pendingSearch' = pendingSearch \cup {SimilarRequest(searchCalls + 1, file, filters)}
  /\ Log("searchSimilar", file)
  /\ UNCHANGED <<appVars, votes, pendingFeedback, pendingMount, feedbackCalls,
                 current, lastKind>>

\* searchByText(query, filters): the request goes out.
CallSearchByText(query) ==
  /\ searchCalls < budget
  /\ searchCalls' = searchCalls + 1
  /\ pendingSearch' = pendingSearch \cup {TextRequest(searchCalls + 1, query, filters)}
  /\ Log("searchByText", query)
  /\ UNCHANGED <<appVars, votes, pendingFeedback, pendingMount, feedbackCalls,
                 current, lastKind>>

NextStrip ==
  \/ \E file \in {"a.jpg", "b.tif"} : CallSearchSimilar(file)
  \/ CallSearchByText(<<"a">>)

SpecStrip == InitStrip /\ [][NextStrip]_vars

\* ------------------------------------------------------------------ claims
\* The event is the arrival of a search response or failure.
IsResponse(ev) == ev.op \in {"searchOk", "searchFail"}

\* C1: once every search call has settled, the result set on display is the
\* response of the query that was submitted last, whatever the order in
\* which the responses arrived.
C1_LastSubmittedWins ==
  (pendingSearch = {} /\ state \in {"results", "detail"} /\ results # NullResults)
    => results.of = searchCalls

\* C2: a response that arrives after newSearch(), no query having been
\* submitted since, is discarded: lifecycle state, result set and error
\* notice stay as they are.
C2_NewSearchInvalidates ==
  [][(IsResponse(lastEvent') /\ current = 0)
       => UNCHANGED <<state, results, error>>]_vars

\* C3: the failure of a request that is not the one submitted last sets no
\* error notice and does not change the lifecycle state.
C3_StaleFailureDiscarded ==
  [][(lastEvent'.op = "searchFail" /\ lastEvent'.arg # current)
       => UNCHANGED <<state, error>>]_vars

\* C4: a filter change after an image query issues an image search request
\* with the same file and exactly the filter values of the new filter set.
C4_RequeryUsesNewFilters ==
  [][(lastEvent'.op = "filterChange" /\ queryFile # Null)
       => \E r \in pendingSearch' \ pendingSearch :
            /\ r.kind = "image"
            /\ r.file = queryFile
            /\ r.filters = RequestFilters(filters')]_vars

\* C5: a filter change moves to Searching and issues a search request if and
\* only if the prior query was image-based; after a text query it only
\* updates the filter set.
C5_RequeryIffImage ==
  [][lastEvent'.op = "filterChange"
       => /\ filters' = lastEvent'.arg
          /\ IF lastKind = "image"
             THEN state' = "searching" /\ searchCalls' = searchCalls + 1
             ELSE /\ searchCalls' = searchCalls
                  /\ pendingSearch' = pendingSearch
                  /\ UNCHANGED <<state, results, selectedResult>>]_vars

\* C6: the same vote cast twice in a row on an item issues one feedback call
\* (the second issues none), and a vote equal to the stored one issues none.
C6_VoteIdempotent ==
  [][lastEvent'.op = "vote"
       => /\ (lastEvent.op = "vote" /\ lastEvent.arg = lastEvent'.arg)
               => feedbackCalls' = feedbackCalls
          /\ votes[lastEvent'.arg.item] = lastEvent'.arg.vote
               => feedbackCalls' = feedbackCalls]_vars

C8_LedgerNeverReverts ==
  [][\A i \in Items : votes[i] # 0 => votes'[i] # 0]_vars

\* C9: when a feedback call fails, the ledger entry of its item is the value
\* it had just before that vote was cast, and the lifecycle state is kept.
C9_RollbackOnFailure ==
  [][lastEvent'.op = "feedbackFail"
       => /\ votes'[lastEvent'.arg.item] = lastEvent'.arg.pre
          /\ state' = state]_vars

\* C10: dropping a file whose MIME type is not accepted, or submitting a text
\* that is empty after trimming, issues no network call and changes neither
\* the lifecycle state, the result set nor the selection.
C10_ValidationBoundary ==
  [][(\/ /\ lastEvent'.op = "dropFile"
         /\ lastEvent'.arg # Null
         /\ FileType[lastEvent'.arg] \notin ACCEPTED_TYPES
      \/ /\ lastEvent'.op = "textSubmit"
         /\ Trim(lastEvent'.arg) = << >>)
       => /\ searchCalls' = searchCalls
          /\ pendingSearch' = pendingSearch
          /\ UNCHANGED <<state, results, selectedResult>>]_vars

C10_Witness ==
  /\ lastEvent.op = "dropFile"
  /\ lastEvent.arg # Null
  /\ FileType[lastEvent.arg] = "application/pdf"
  /\ state = "idle"
  /\ results = NullResults
  /\ pendingSearch = {}


\* C11: the filter parameters of a request are exactly the recognized
\* dimensions whose value in the filter set is present and not empty, with
\* the values unchanged; no empty, absent or unrecognized entry is sent.
C11_FilterStrip ==
  \A r \in pendingSearch :
    /\ DOMAIN r.filters \subseteq Dims
    /\ \A d \in Dims :
         d \in DOMAIN r.filters <=> (filters[d] # Undef /\ filters[d] # "")
    /\ \A d \in DOMAIN r.filters : r.filters[d] = filters[d] /\ r.filters[d] # ""

C11_Witness ==
  /\ filters["diagnosis"] = ""
  /\ filters["tissue_type"] = "melanoma"
  /\ filters["benign_malignant"] = Undef
  /\ filters["age"] = "melanoma"
  /\ \E r \in pendingSearch : r.kind = "image" /\ DOMAIN r.filters = {"tissue_type"}
  /\ \E r \in pendingSearch : r.kind = "text" /\ DOMAIN r.filters = {"tissue_type"}


\* C12: a valid query submitted in Idle (an accepted image, or a text that is
\* not blank) leaves the controller Searching with no result set and no error
\* notice; when the response for the last submitted query arrives, the state
\* becomes Results and the stored result set is the response's items in the
\* order given.
C12_HappyPath ==
  [][/\ (/\ state = "idle"
         /\ \/ /\ lastEvent'.op = "dropFile"
               /\ lastEvent'.arg # Null
               /\ FileType[lastEvent'.arg] \in ACCEPTED_TYPES
            \/ /\ lastEvent'.op = "textSubmit"
               /\ Trim(lastEvent'.arg) # << >>)
        => (state' = "searching" /\ results' = NullResults /\ error' = Null)
     /\ (lastEvent'.op = "searchOk" /\ lastEvent'.arg.id = searchCalls)
        => (state' = "results" /\ results'.results = lastEvent'.arg.items)]_vars

C12_Witness ==
  /\ lastEvent.op = "searchOk"
  /\ lastEvent.arg.id = searchCalls
  /\ lastEvent.arg.items = <<2, 1>>
  /\ state = "results"
  /\ results.results = <<2, 1>>
  /\ error = Null


\* C13: when the last submitted request fails while the controller is
\* Searching, the controller becomes Idle with an error notice and the step
\* sends nothing; and a search call is only ever sent by a step of the user
\* (a dropped file, a submitted text, a changed filter), so nothing is tried
\* again by itself.
C13_FailureNoRetry ==
  [][/\ (lastEvent'.op = "searchFail" /\ lastEvent'.arg = current /\ state = "searching")
        => /\ state' = "idle"
           /\ error' # Null
           /\ searchCalls' = searchCalls
           /\ pendingSearch' \subseteq pendingSearch
     /\ (searchCalls' # searchCalls \/ ~(pendingSearch' \subseteq pendingSearch))
        => lastEvent'.op \in {"dropFile", "textSubmit", "filterChange"}]_vars

C13_Witness ==
  /\ lastEvent.op = "searchFail"
  /\ lastEvent.arg = current
  /\ state = "idle"
  /\ error # Null
  /\ searchCalls = 1
  /\ pendingSearch = {}


\* C14: newSearch() ends in Idle with the result set, the selection, the
\* image payload and the query text all cleared, whatever the state it is
\* pressed in.
C14_NewSearchClears ==
  [][lastEvent'.op = "newSearch"
     => /\ state' = "idle"
        /\ results' = NullResults
        /\ selectedResult' = NoItem
        /\ queryFile' = Null
        /\ textQuery' = << >>]_vars

C14_Witness ==
  /\ lastEvent.op = "newSearch"
  /\ searchCalls = 1
  /\ pendingSearch = {}
  /\ error = Null
  /\ state = "idle"
  /\ results = NullResults
  /\ selectedResult = NoItem
  /\ queryFile = Null
  /\ textQuery = << >>


\* C15: selecting an item in Results gives Detail with that item selected,
\* back in Detail gives Results with no selection; neither changes the result
\* set, the filters, the image payload or the query text, and neither sends a
\* search call.
C15_SelectBackFrame ==
  [][/\ lastEvent'.op = "select"
        => /\ state = "results"
           /\ state' = "detail"
           /\ selectedResult' = lastEvent'.arg
     /\ lastEvent'.op = "back"
        => /\ state = "detail"
           /\ state' = "results"
           /\ selectedResult' = NoItem
     /\ lastEvent'.op \in {"select", "back"}
        => /\ results' = results
           /\ filters' = filters
           /\ queryFile' = queryFile
           /\ textQuery' = textQuery
           /\ searchCalls' = searchCalls
           /\ pendingSearch' = pendingSearch]_vars

C15_Witness ==
  /\ lastEvent.op = "back"
  /\ state = "results"
  /\ selectedResult = NoItem
  /\ results.results = <<2, 1>>
  /\ queryFile = "b.tif"
  /\ filters # NoFilters


\* C16: a failed health fetch stores status "unreachable" and raises no error
\* notice; a health outcome changes nothing but the health status, no other
\* step changes the health status, and whether a file can be submitted is
\* decided by the lifecycle state alone, whatever the health status is.
C16_HealthNonInterfering ==
  /\ [](\A file \in {"a.jpg", "b.tif"} :
          ENABLED HandleFile(file) <=> (state = "idle" /\ searchCalls < budget))
  /\ [][/\ lastEvent'.op = "healthFail" => health' = "unreachable"
        /\ lastEvent'.op \in {"healthOk", "healthFail"}
           => UNCHANGED <<state, results, selectedResult, filters, filterOptions,
                          error, queryFile, textQuery, votes, pendingSearch,
                          pendingFeedback, searchCalls, feedbackCalls, current>>
        /\ lastEvent'.op \notin {"healthOk", "healthFail"} => health' = health]_vars

C16_Witness ==
  /\ health = "unreachable"
  /\ lastEvent.op = "dropFile"
  /\ lastEvent.arg = "a.jpg"
  /\ state = "searching"
  /\ error = Null
  /\ searchCalls = 1


\* C17: for any result item, no two feedback submissions for that item are in
\* flight at the same time.
C17_VoteSerialized ==
  \A r1, r2 \in pendingFeedback : r1.item = r2.item => r1 = r2


\* C19: in every reachable state a selected result is stored only while the
\* lifecycle state is Detail, and a stored selection is an item of the stored
\* result set.
C19_SelectionOnlyInDetail ==
  selectedResult # NoItem
    => (state = "detail" /\ selectedResult \in Range(results.results))

\* C19 (amended): while the lifecycle state is Detail the stored selection is
\* an item of the stored result set; the selection is written only by
\* selecting, going back and newSearch, so a changed filter, a response and a
\* failure leave the selection they find.
C19_SelectionInDetail ==
  /\ [](state = "detail" => selectedResult \in Range(results.results))
  /\ [][selectedResult' # selectedResult
        => lastEvent'.op \in {"select", "back", "newSearch"}]_vars

C19_Witness ==
  /\ state = "detail"
  /\ lastEvent.op = "select"
  /\ selectedResult = 1
  /\ results.of = 2
  /\ results.results = <<2, 1>>


\* C20: in every reachable state, lifecycle state Results or Detail implies
\* that a result set is stored, and lifecycle state Detail implies that a
\* selected result is stored.
C20_Renderable ==
  /\ state \in {"results", "detail"} => results # NullResults
  /\ state = "detail" => selectedResult # NoItem

C20_Witness ==
  /\ state = "detail"
  /\ selectedResult = 2
  /\ results # NullResults
  /\ results.results = <<1, 2>>
  /\ pendingSearch # {}


\* C21: in every reachable state an error notice is present only while the
\* lifecycle state is Idle, and while the state is Idle no result set is
\* stored.
C21_ErrorOnlyIdle ==
  /\ error # Null => state = "idle"
  /\ state = "idle" => results = NullResults


\* C22: if every search call eventually settles, a controller that is
\* Searching eventually is in Results or Idle, whatever the interleaving of
\* submissions, newSearch() and arrivals.
C22_SearchingResolves ==
  (state = "searching") ~> (state \in {"results", "idle"})

C22_Witness ==
  /\ lastEvent.op = "searchOk"
  /\ lastEvent.arg.id = current
  /\ searchCalls = 2
  /\ state = "results"
  /\ pendingSearch = {}


\* C23: newSearch() leaves the active filter set and the fetched vocabulary
\* unchanged, and the next query submitted after a newSearch() is sent with
\* the filters that were active before that newSearch().
C23_NewSearchKeepsFilters ==
  [][/\ lastEvent'.op = "newSearch"
        => (filters' = filters /\ filterOptions' = filterOptions)
     /\ (current = 0 /\ searchCalls > 0 /\ searchCalls' = searchCalls + 1)
        => \A r \in pendingSearch' \ pendingSearch :
             r.filters = RequestFilters(resetFilters)]_vars

====
